---- MODULE Spec2Model ----
(***************************************************************************)
(* A model of the database access layer of dbfordevs (src-tauri/src/db and *)
(* src-tauri/src/commands): the statement splitter, the multi-statement    *)
(* execution of the drivers, and the connection pool registry with the     *)
(* commands that use it.                                                    *)
(*                                                                         *)
(* Five specifications share the module:                                   *)
(*   SpecSplit  the left-to-right scan of split_sql_statements             *)
(*   SpecExec   one execute_query call of a driver against its database    *)
(*   SpecDriver one driver operation handed a PoolRef                      *)
(*   SpecTest   one test_connection command                                *)
(*   Spec       the registry, its lock and the command tasks               *)
(***************************************************************************)
EXTENDS Integers, Sequences, FiniteSets, TLC

VARIABLES
    sp,                  \* the state of one split_sql_statements scan
    xq,                  \* the state of one driver execute_query call
    dc,                  \* the state of one driver operation on a PoolRef
    cl,                  \* the state of one classification of a statement text
    cn,                  \* the state of one connection being set up from a full configuration
    tc,                  \* the state of one test_connection command
    cv,                  \* the state of one column value conversion
    rel,                 \* the state of one get_table_relationships call
    storage,             \* saved configurations (storage/mod.rs), by identifier
    connections,         \* ConnectionManager.connections
    connection_strings,  \* ConnectionManager.connection_strings
    pools,               \* the live sqlx pools, by handle
    writer,              \* the task holding the RwLock's write guard
    readers,             \* the tasks holding a read guard
    task                 \* the command tasks: command, position, locals

vars == <<sp, xq, dc, tc, cv, rel, cn, cl, storage, connections, connection_strings, pools, writer, readers, task>>

(***************************************************************************)
(* Bounds of the model.                                                    *)
(***************************************************************************)
\* longest input text enumerated exhaustively for the splitter
MaxLen == 3
\* most statements in a script given to execute_query
MaxStmts == 3
\* most rows a statement returns or affects
MaxRows == 2
\* most sqlx pools alive at one time
MaxPools == 2

\* the absent value of a name or tag
None == "None"

\* Option<T> of a structured value: None is the empty set, Some(x) holds x
Absent == {}
Some(x) == {x}
Unwrap(o) == CHOOSE x \in o : TRUE

(***************************************************************************)
(* Statement splitter: PostgresDriver::split_sql_statements.               *)
(***************************************************************************)
SQ == "'"
\* the double quote character (written as a word)
DQ == "dq"
\* the backtick character (written as a word, like the double quote)
BT == "bt"
NL == "\n"

\* The characters the scan distinguishes, one letter and one blank.
Alphabet == {SQ, DQ, BT, "-", NL, "/", "*", ";", "a", " "}

\* Longer inputs, among them the texts the specification names:
\* a';'a;a;  is  SELECT ';' AS x; SELECT 2;   and  --a;\na;  is  -- a;\nSELECT 1;
SeedInputs ==
    { <<"a", SQ, ";", SQ, "a", ";", "a", ";">>,
      <<"-", "-", "a", ";", NL, "a", ";">>,
      <<SQ, "a", SQ, SQ, ";", SQ, ";", "a">>,
      <<SQ, SQ, SQ, ";", SQ, ";">>,
      <<"/", "*", ";", "*", "/", "a", ";", " ">>,
      <<"/", "*", "/", ";", "*", "/", ";", "a">>,
      <<BT, ";", SQ, BT, ";", SQ, ";", SQ>>,
      <<DQ, SQ, ";", DQ, ";", SQ, ";", "a">>,
      <<" ", "a", " ", ";", " ", NL, ";", " ", "a", NL>>,
      <<"a", "-", "-", SQ, NL, ";", SQ, ";">>,
      <<"a", "/", "*", "-", "-", "*", "/", ";", "a">>,
      <<"-", "-", "/", "*", NL, ";", "*", "/", ";">>,
      <<"-", "/", "*", "*", "/", "-", "a", ";", "a">>,
      <<"/", "-", "-", "a", NL, "*", "a", ";">> }

Inputs == UNION { [1..n -> Alphabet] : n \in 0..MaxLen } \cup SeedInputs

IsWhitespace(c) == c \in {" ", NL}

RECURSIVE TrimStart(_)
\* str::trim, leading part
TrimStart(s) ==
    IF s # <<>> /\ IsWhitespace(Head(s)) THEN TrimStart(Tail(s)) ELSE s

RECURSIVE TrimEnd(_)
\* str::trim, trailing part
TrimEnd(s) ==
    IF s # <<>> /\ IsWhitespace(s[Len(s)]) THEN TrimEnd(SubSeq(s, 1, Len(s) - 1)) ELSE s

\* current.trim()
Trim(s) == TrimEnd(TrimStart(s))

\* The locals of split_sql_statements before the loop. boundaries records the
\* positions of the semicolons at which the scan closed a statement.
StartScan(s) ==
    [ input |-> s, pos |-> 1, current |-> <<>>, statements |-> <<>>,
      in_single_quote |-> FALSE, in_double_quote |-> FALSE, in_backtick |-> FALSE,
      in_line_comment |-> FALSE, in_block_comment |-> FALSE,
      boundaries |-> {}, done |-> FALSE ]

\* arms that would look at in_line_comment only
InAnyComment_LineOnly(st) == st.in_line_comment

\* the guard shared by the quote, comment-opening and semicolon arms
InAnyComment(st) == st.in_line_comment \/ st.in_block_comment

\* a ';' arm that would not look at in_backtick
SemicolonSplits_NoBacktick(st) ==
    ~st.in_single_quote /\ ~st.in_double_quote /\ ~InAnyComment(st)

\* the guard of the ';' arm that ends a statement
SemicolonSplits(st) ==
    ~st.in_single_quote /\ ~st.in_double_quote /\ ~st.in_backtick /\ ~InAnyComment(st)

\* the test of the '\'' arm for an escaped quote
IsEscapedQuote(st) ==
    /\ st.in_single_quote
    /\ st.pos + 1 <= Len(st.input)
    /\ st.input[st.pos + 1] = SQ

\* statements.push(trimmed) when trimmed is not empty
PushTrimmed(statements, current) ==
    IF Trim(current) # <<>> THEN Append(statements, Trim(current)) ELSE statements

\* One iteration of the loop `while let Some(c) = chars.next()`: the match on c,
\* its arms tried in the order of the source.
ScanChar(st) ==
    LET c == st.input[st.pos]
        hasPeek == st.pos + 1 <= Len(st.input)
        peek == IF hasPeek THEN st.input[st.pos + 1] ELSE None
        sq == st.in_single_quote
        dq == st.in_double_quote
        bt == st.in_backtick
        cm == InAnyComment(st)
        push == [st EXCEPT !.current = Append(@, c), !.pos = @ + 1]
        skip == [st EXCEPT !.pos = @ + 1]
    IN  IF c = SQ /\ ~dq /\ ~bt /\ ~cm THEN
            IF IsEscapedQuote(st)
            THEN [st EXCEPT !.current = @ \o <<c, peek>>, !.pos = @ + 2]
            ELSE [push EXCEPT !.in_single_quote = ~sq]
        ELSE IF c = DQ /\ ~sq /\ ~bt /\ ~cm THEN
            [push EXCEPT !.in_double_quote = ~dq]
        ELSE IF c = BT /\ ~sq /\ ~dq /\ ~cm THEN
            [push EXCEPT !.in_backtick = ~bt]
        ELSE IF c = "-" /\ ~sq /\ ~dq /\ ~bt /\ ~cm THEN
            IF peek = "-"
            THEN [st EXCEPT !.pos = @ + 2, !.in_line_comment = TRUE]
            ELSE push
        ELSE IF c = NL /\ st.in_line_comment THEN
            [skip EXCEPT !.in_line_comment = FALSE]
        ELSE IF c = "/" /\ ~sq /\ ~dq /\ ~bt /\ ~cm THEN
            IF peek = "*"
            THEN [st EXCEPT !.pos = @ + 2, !.in_block_comment = TRUE]
            ELSE push
        ELSE IF c = "*" /\ st.in_block_comment THEN
            IF peek = "/"
            THEN [st EXCEPT !.pos = @ + 2, !.in_block_comment = FALSE]
            ELSE skip
        ELSE IF c = ";" /\ SemicolonSplits(st) THEN
            [skip EXCEPT !.statements = PushTrimmed(@, st.current),
                         !.current = <<>>,
                         !.boundaries = @ \cup {st.pos}]
        ELSE IF ~cm THEN push
        ELSE skip

\* After the loop: the remaining text is pushed when it is not empty.
ScanEnd(st) ==
    [st EXCEPT !.statements = PushTrimmed(@, st.current), !.done = TRUE]

ScanNext(st) == IF st.pos <= Len(st.input) THEN ScanChar(st) ELSE ScanEnd(st)

RECURSIVE RunScan(_)
RunScan(st) == IF st.done THEN st ELSE RunScan(ScanNext(st))

\* the function as a whole
split_sql_statements(s) == RunScan(StartScan(s)).statements

(***************************************************************************)
(* Multi-statement execution: execute_query of the three drivers.          *)
(* A script is the sequence of its statements. Each statement carries what *)
(* the database answers to it: whether it is row-returning (kind), whether *)
(* it fails (ok), how many rows it returns or affects (n), and how many    *)
(* columns its result set has (w; none for a statement that returns no     *)
(* result set).                                                            *)
(***************************************************************************)
Drivers == {"Postgres", "MySql", "Sqlite"}

\* row.columns(): the widths of the result sets
ColumnCounts == {1, 2}

Statements ==
    [kind : {"select"}, ok : {TRUE}, n : 0..MaxRows, w : ColumnCounts]
        \cup [kind : {"exec"}, ok : {TRUE}, n : 0..MaxRows, w : {0}]
        \cup [kind : {"select", "exec"}, ok : {FALSE}, n : {0}, w : {0}]

Scripts == UNION { [1..k -> Statements] : k \in 0..MaxStmts }

\* affected_rows: None
NoCount == Absent

\* QueryResult { columns: vec![], rows: vec![], affected_rows: None, .. }
EmptyResult == [columns |-> <<>>, rows |-> <<>>, affected_rows |-> NoCount]

\* rows[0].columns().iter().map(|col| ColumnInfo { .. }).collect()
ColumnsOf(stmt, idx) == [c \in 1..stmt.w |-> <<idx, "col", c>>]

\* rows.iter().map(|row| (0..columns.len()).map(|i| ..).collect()).collect()
JsonRows(columns, n, idx) ==
    [j \in 1..n |-> [c \in 1..Len(columns) |-> <<idx, j, c>>]]

\* The QueryResult built for statement idx once the database has answered:
\* rows and columns are tagged with the statement they come from. The
\* columns are read off the first row, so a result set of no rows gives none.
StmtResult(stmt, idx) ==
    IF stmt.kind = "select"
    THEN IF stmt.n = 0
         THEN EmptyResult
         ELSE LET columns == ColumnsOf(stmt, idx)
              IN  [columns |-> columns,
                   rows |-> JsonRows(columns, stmt.n, idx),
                   affected_rows |-> NoCount]
    ELSE [columns |-> <<>>, rows |-> <<>>, affected_rows |-> Some(stmt.n)]

\* "Keep track of total affected rows"
AddAffected(final, result) ==
    IF result.affected_rows # NoCount
    THEN IF final.affected_rows # NoCount
         THEN [final EXCEPT !.affected_rows =
                   Some(Unwrap(@) + Unwrap(result.affected_rows))]
         ELSE [final EXCEPT !.affected_rows = result.affected_rows]
    ELSE final

\* "Use the last SELECT query's results as the final result"; i is the
\* 1-based index of the statement, len the number of statements.
Accumulate(final, result, i, len) ==
    LET summed == AddAffected(final, result)
    IN  IF Len(result.rows) > 0
        THEN [result EXCEPT !.affected_rows = summed.affected_rows]
        ELSE IF i = len /\ Len(summed.rows) = 0
             THEN result
             ELSE summed

\* AppError::QueryError(format!("Query execution failed: {}", e)) for
\* statement i: the text carries the native message, not the index.
StmtError(i) ==
    [kind |-> "QueryError", msg |-> "Query execution failed", original |-> i,
     rollback |-> FALSE, names_index |-> FALSE]

BeginError ==
    [kind |-> "QueryError", msg |-> "Failed to start transaction", original |-> 0,
     rollback |-> FALSE, names_index |-> FALSE]

CommitError ==
    [kind |-> "QueryError", msg |-> "Failed to commit transaction", original |-> 0,
     rollback |-> FALSE, names_index |-> FALSE]

\* an error that reports the failed rollback and drops the statement's error
RollbackError_Alone(e) ==
    [kind |-> "QueryError", msg |-> "Transaction rollback failed",
     original |-> 0, rollback |-> TRUE, names_index |-> FALSE]

\* "Query failed: {e}. Transaction rollback also failed: {rollback_err}"
RollbackError(e) ==
    [kind |-> "QueryError", msg |-> "Query failed ... rollback also failed",
     original |-> e.original, rollback |-> TRUE, names_index |-> FALSE]

\* no AppError
NoError ==
    [kind |-> "none", msg |-> "", original |-> 0,
     rollback |-> FALSE, names_index |-> FALSE]

\* AppResult<T>: not returned yet, Ok(v), Err(e)
NoResult == [status |-> "none", value |-> Absent, err |-> NoError]
OkResult(v) == [status |-> "ok", value |-> Some(v), err |-> NoError]
ErrResult(e) == [status |-> "err", value |-> Absent, err |-> e]

\* Whether execute_query of the driver runs a script of len statements
\* inside a transaction it begins itself.
UsesTransaction(driver, len) == driver = "Postgres" /\ len # 1

\* One execute_query call before its first step.
StartExec(driver, stmts) ==
    [ driver |-> driver, stmts |-> stmts, pc |-> "start", i |-> 1,
      final_result |-> EmptyResult, tx |-> "none",
      pending |-> {}, committed |-> {}, executed |-> {},
      first_error |-> NoError, result |-> NoResult ]

\* the effect of statement i, when it has one
Effect(stmts, i) == IF stmts[i].kind = "exec" /\ stmts[i].ok THEN {i} ELSE {}

(***************************************************************************)
(* Driver operations on a PoolRef (db/connection.rs, the three drivers).   *)
(***************************************************************************)
\* the variants of PoolRef, named like the driver that owns them
PoolTags == Drivers

\* the operations of trait DatabaseDriver that take a PoolRef
DriverOps ==
    { "execute_query", "get_tables", "get_table_schema", "generate_table_ddl",
      "rename_table", "get_indexes", "get_constraints", "get_table_properties",
      "get_table_relationships" }

\* an operation that would take any PoolRef
AcceptsPool_Any(driver, op, tag) == TRUE

\* The match every operation opens with:
\*   let pool = match pool { PoolRef::X(p) => p, _ => return Err(QueryError(..)) };
AcceptsPool(driver, op, tag) ==
    CASE driver = "Postgres" -> tag = "Postgres"
      [] driver = "MySql"    -> tag = "MySql"
      [] driver = "Sqlite"   -> tag = "Sqlite"

\* The catalog, PRAGMA or user statements an operation sends before it
\* returns, counted on its straight path (loops over indexes or tables add
\* more for SQLite).
StatementsOf(driver, op) ==
    CASE op = "get_table_schema" -> IF driver = "Sqlite" THEN 2 ELSE 3
      [] op = "generate_table_ddl" -> IF driver = "Postgres" THEN 3 ELSE 1
      [] op = "get_table_properties" -> IF driver = "Sqlite" THEN 5 ELSE 7
      [] op = "get_table_relationships" -> 2
      [] OTHER -> 1

InvalidPoolError ==
    [kind |-> "QueryError", msg |-> "Invalid pool type", original |-> 0,
     rollback |-> FALSE, names_index |-> FALSE]

NativeError(op) ==
    [kind |-> "QueryError", msg |-> op, original |-> 0,
     rollback |-> FALSE, names_index |-> FALSE]

\* One driver operation before its first step.
StartCall(driver, op, tag) ==
    [driver |-> driver, op |-> op, tag |-> tag, pc |-> "match",
     issued |-> 0, result |-> NoResult]

(***************************************************************************)
(* Connection pool registry (db/manager.rs), driver factory                *)
(* (db/connection.rs), storage (storage/mod.rs) and commands.              *)
(***************************************************************************)
Ids == {"a", "b"}
Tasks == {"t1", "t2"}

\* enum DatabaseType
DatabaseTypes == {"PostgreSQL", "MySQL", "SQLite", "MSSQL"}

\* The dialects of the configurations saved in the registry model: a server
\* dialect, the file dialect and the one without a driver.
RegistryTypes == {"PostgreSQL", "SQLite", "MSSQL"}

\* The part of ConnectionConfig the registry and the factory branch on.
Configs == [database_type : RegistryTypes]

\* get_driver: the factory's match on config.database_type
get_driver(config) ==
    CASE config.database_type = "PostgreSQL" -> "Postgres"
      [] config.database_type = "MySQL"      -> "MySql"
      [] config.database_type = "SQLite"     -> "Sqlite"
      [] config.database_type = "MSSQL"      -> "Postgres"

\* The variant of ConnectionPool that connect builds for a dialect; None for
\* the arm that returns "MSSQL not yet implemented".
PoolTagFor(config) ==
    CASE config.database_type = "PostgreSQL" -> "Postgres"
      [] config.database_type = "MySQL"      -> "MySql"
      [] config.database_type = "SQLite"     -> "Sqlite"
      [] config.database_type = "MSSQL"      -> None

\* the scheme of the connection string each build_*_connection_string makes
ConnectionStringFor(config) ==
    CASE config.database_type = "PostgreSQL" -> "postgresql://"
      [] config.database_type = "MySQL"      -> "mysql://"
      [] config.database_type = "SQLite"     -> "sqlite:"
      [] OTHER -> None

(***************************************************************************)
(* Column value conversion: pg_value_to_json and the row conversions of    *)
(* MySqlDriver::execute_query and SqliteDriver::execute_query.             *)
(***************************************************************************)
\* The typed attempts of pg_value_to_json in the order of the source: the
\* Rust type tried and the kind of JSON value made of it.
PgAttempts ==
    << <<"String", "string">>, <<"Uuid", "string">>, <<"i64", "number">>,
       <<"i32", "number">>, <<"i16", "number">>, <<"f64", "number">>,
       <<"f32", "number">>, <<"Decimal", "string">>, <<"PgMoney", "string">>,
       <<"bool", "bool">>, <<"NaiveDateTime", "string">>,
       <<"DateTime<Utc>", "string">>, <<"NaiveDate", "string">>,
       <<"NaiveTime", "string">>, <<"time::Date", "string">>,
       <<"time::Time", "string">>, <<"time::PrimitiveDateTime", "string">>,
       <<"time::OffsetDateTime", "string">>, <<"PgInterval", "string">>,
       <<"IpNetwork", "string">>, <<"IpAddr", "string">>,
       <<"MacAddress", "string">>, <<"BitVec", "string">>,
       <<"Vec<u8>", "string">>, <<"serde_json::Value", "json">>,
       <<"Vec<String>", "array">>, <<"Vec<i32>", "array">>,
       <<"Vec<i64>", "array">>, <<"Vec<f64>", "array">>,
       <<"Vec<bool>", "array">>, <<"Vec<Uuid>", "array">> >>

\* the typed attempts of the MySQL row conversion
MySqlAttempts ==
    << <<"String", "string">>, <<"Vec<u8>", "string">>, <<"i64", "number">>,
       <<"i32", "number">>, <<"f64", "number">>, <<"bool", "bool">>,
       <<"NaiveDateTime", "string">>, <<"DateTime<Utc>", "string">> >>

\* the typed attempts of the SQLite row conversion
SqliteAttempts ==
    << <<"String", "string">>, <<"i64", "number">>, <<"i32", "number">>,
       <<"f64", "number">>, <<"bool", "bool">>, <<"NaiveDateTime", "string">>,
       <<"DateTime<Utc>", "string">> >>

AttemptsOf(driver) ==
    CASE driver = "Postgres" -> PgAttempts
      [] driver = "MySql"    -> MySqlAttempts
      [] driver = "Sqlite"   -> SqliteAttempts

\* what the raw bytes of a value are: valid UTF-8 without control characters
\* other than whitespace, valid UTF-8 with one, or not UTF-8
ByteClasses == {"text", "control", "binary"}

\* A column value as sqlx hands it over: whether it is SQL NULL, the first
\* typed attempt whose try_get returns Ok (0 when every one returns Err), and
\* its raw bytes. What try_get returns for a NULL is sqlx's affair: an Err
\* from some decoders, a default value from others, so both are drawn.
Cells ==
    UNION { [driver : {d}, null : BOOLEAN, accepted : 0..Len(AttemptsOf(d)),
             bytes : ByteClasses] : d \in Drivers }

\* serde_json::Value, by kind and by how it was made
Json(kind, how) == [kind |-> kind, how |-> how]
NoJson == Json("none", "none")

\* the value of the first typed attempt that returns Ok
TypedJson(cell) ==
    LET a == AttemptsOf(cell.driver)[cell.accepted] IN Json(a[2], a[1])

\* pg_value_to_json's last resort: the raw bytes as a string, or tagged base64
RawJson(cell) ==
    IF cell.bytes = "text" THEN Json("string", "raw bytes")
    ELSE Json("string", "[base64: ...]")

\* PostgresDriver::pg_value_to_json
pg_value_to_json(cell) ==
    IF cell.null THEN Json("null", "null")
    ELSE IF cell.accepted # 0 THEN TypedJson(cell)
    ELSE RawJson(cell)

\* the closure of the row conversion in MySqlDriver and SqliteDriver
row_value_to_json(cell) ==
    IF cell.accepted # 0 THEN TypedJson(cell)
    ELSE Json("string", "Unsupported type")

\* the conversion each driver applies to a column value
value_to_json(cell) ==
    IF cell.driver = "Postgres" THEN pg_value_to_json(cell) ELSE row_value_to_json(cell)

\* one column value before its conversion
StartValue(cell) == [cell |-> cell, pc |-> "start", json |-> NoJson]

(***************************************************************************)
(* get_table_relationships of the three drivers. The database holds a set  *)
(* of foreign keys; a foreign key from table s to table t is one edge.     *)
(***************************************************************************)
TableNames == {"orders", "users"}

\* TableRelationship for the foreign key of s that references t
FkEdge(s, t) ==
    [source_table |-> s, source_column |-> <<t, "id">>, target_table |-> t,
     target_column |-> "id", constraint_name |-> Some(<<"fk", s, t>>)]

\* the foreign keys a database may hold
AllEdges == {FkEdge(s, t) : s \in TableNames, t \in TableNames}

RECURSIVE SetToSeq(_)
\* the rows of a result set, in the order the database returns them
SetToSeq(S) ==
    IF S = {} THEN <<>>
    ELSE LET x == CHOOSE y \in S : TRUE IN <<x>> \o SetToSeq(S \ {x})

\* the outgoing query: WHERE ... table_name = $table; PRAGMA foreign_key_list(table)
OutgoingRows(edges, table) == {e \in edges : e.source_table = table}

\* the incoming query: WHERE ... referenced table = $table. SQLite walks the
\* other tables (`if other_table == table_name { continue; }`) and keeps the
\* foreign keys that reference the table.
IncomingRows(driver, edges, table) ==
    IF driver = "Sqlite"
    THEN {e \in edges : e.source_table # table /\ e.target_table = table}
    ELSE {e \in edges : e.target_table = table}

\* constraint_name: None in the SQLite driver, the catalog's name elsewhere
AsRelationship(driver, e) ==
    IF driver = "Sqlite" THEN [e EXCEPT !.constraint_name = Absent] ELSE e

RECURSIVE PushAll(_, _, _)
\* relationships.push(TableRelationship { .. }) for each row
PushAll(driver, relationships, rows) ==
    IF rows = <<>> THEN relationships
    ELSE PushAll(driver, Append(relationships, AsRelationship(driver, Head(rows))),
                 Tail(rows))

RelError(what) ==
    [kind |-> "QueryError", msg |-> what, original |-> 0,
     rollback |-> FALSE, names_index |-> FALSE]

\* one get_table_relationships call after its pool match
StartRel(driver, edges, table) ==
    [driver |-> driver, edges |-> edges, table |-> table, pc |-> "outgoing",
     outgoing_rows |-> <<>>, incoming_rows |-> <<>>, swallowed |-> FALSE,
     result |-> NoResult]

\* struct ConnectionConfig as test_connection receives it: the dialect and
\* which of the optional fields are given.
TestConfigs ==
    [database_type : DatabaseTypes, host : {None, "db.example"},
     port : {None, "7000"}, file_path : {None, "app.db"}]

\* Ok(TestConnectionResult { success: true, message, server_version: Some(version) })
TestSucceeded ==
    [success |-> TRUE, message |-> "connection successful", server_version |-> Some("version")]

\* commands::test_connection on entry: the configuration it was given
StartTest(config) ==
    [config |-> config, driver |-> None, pc |-> "start", pool |-> "none",
     result |-> NoResult]

\* is_connected
is_connected(conns, id) == conns[id] # Absent

\* a connect that would insert over the registered pool
DisconnectsFirst_Never(conns, id) == FALSE

\* Whether ConnectionManager::connect first disconnects:
\*   if self.connections.contains_key(&connection_id) { self.disconnect(..).await?; }
DisconnectsFirst(conns, id) == is_connected(conns, id)

\* A live pool: its variant and the identifier it was opened for.
NewPool(tag, for) == [tag |-> tag, for |-> for]

PoolIds == 1..MaxPools

IdleTask ==
    [cmd |-> "idle", pc |-> "idle", id |-> None, op |-> None, config |-> Absent,
     driver |-> None, pool |-> Absent, old |-> Absent, result |-> NoResult]

ConnectionNotFound ==
    [kind |-> "ConfigError", msg |-> "Connection not found", original |-> 0,
     rollback |-> FALSE, names_index |-> FALSE]

NotConnected ==
    [kind |-> "ConnectionError", msg |-> "Connection not found or not connected",
     original |-> 0, rollback |-> FALSE, names_index |-> FALSE]

ConnectFailed ==
    [kind |-> "ConnectionError", msg |-> "Failed to connect", original |-> 0,
     rollback |-> FALSE, names_index |-> FALSE]

\* AppError::ConnectionError("Failed to get version: ...")
VersionFailed ==
    [kind |-> "ConnectionError", msg |-> "Failed to get version", original |-> 0,
     rollback |-> FALSE, names_index |-> FALSE]

NotImplemented ==
    [kind |-> "ConnectionError", msg |-> "MSSQL not yet implemented", original |-> 0,
     rollback |-> FALSE, names_index |-> FALSE]

(***************************************************************************)
(* Connection strings: build_connection_string of the drivers and the      *)
(* build_*_connection_string functions of db/manager.rs, on a full         *)
(* ConnectionConfig.                                                       *)
(***************************************************************************)
\* struct ConnectionConfig: the dialect, the database name and the optional
\* fields, each absent or given
ConnectionConfigs ==
    [database_type : DatabaseTypes,
     host : {Absent, Some("db.example")},
     port : {Absent, Some(7000)},
     database : {"app", "data/app.db"},
     username : {Absent, Some("admin")},
     password : {Absent, Some("pw")},
     ssl_mode : {Absent, Some("require")},
     file_path : {Absent, Some("/var/app.db"), Some("sqlite:app.db")}]

\* Option::unwrap_or
unwrap_or(o, default) == IF o = Absent THEN default ELSE Unwrap(o)

\* Option::or_else
or_else(o, alternative) == IF o = Absent THEN alternative ELSE o

\* str::starts_with
starts_with(s, prefix) ==
    Len(s) >= Len(prefix) /\ SubSeq(s, 1, Len(prefix)) = prefix

\* s.split('/').last(): the part after the last '/', the whole of s when it
\* has none; split yields at least one part, so it is always Some
split_last(s) ==
    LET slashes == {k \in 1..Len(s) : SubSeq(s, k, k) = "/"}
    IN  IF slashes = {} THEN Some(s)
        ELSE LET k == CHOOSE k \in slashes : \A j \in slashes : j <= k
             IN  Some(SubSeq(s, k + 1, Len(s)))

\* a driver that uses one port for every server dialect
DefaultPort_Postgres(driver) == 5432

\* config.port.unwrap_or(5432) and config.port.unwrap_or(3306)
DefaultPort(driver) == IF driver = "MySql" THEN 3306 ELSE 5432

\* PostgresDriver::build_connection_string
postgres_build_connection_string(config) ==
    LET host == unwrap_or(config.host, "localhost")
        port == unwrap_or(config.port, DefaultPort("Postgres"))
        username == unwrap_or(config.username, "postgres")
        password == unwrap_or(config.password, "")
        url == "postgresql://" \o username \o ":" \o password \o "@" \o host
                   \o ":" \o ToString(port) \o "/" \o config.database
    IN  IF config.ssl_mode # Absent
        THEN url \o "?sslmode=" \o Unwrap(config.ssl_mode)
        ELSE url

\* MySqlDriver::build_connection_string
mysql_build_connection_string(config) ==
    LET host == unwrap_or(config.host, "localhost")
        port == unwrap_or(config.port, DefaultPort("MySql"))
        username == unwrap_or(config.username, "root")
        password == unwrap_or(config.password, "")
    IN  "mysql://" \o username \o ":" \o password \o "@" \o host
            \o ":" \o ToString(port) \o "/" \o config.database

\* SqliteDriver::build_connection_string
sqlite_build_connection_string(config) ==
    LET path == unwrap_or(config.file_path, config.database)
    IN  IF starts_with(path, "sqlite:") THEN path ELSE "sqlite:" \o path

\* driver.build_connection_string(config) of the driver get_driver returned
build_connection_string(driver, config) ==
    CASE driver = "Postgres" -> postgres_build_connection_string(config)
      [] driver = "MySql"    -> mysql_build_connection_string(config)
      [] driver = "Sqlite"   -> sqlite_build_connection_string(config)

\* AppError::ConfigError("SQLite file path is required")
FilePathRequired ==
    [kind |-> "ConfigError", msg |-> "SQLite file path is required", original |-> 0,
     rollback |-> FALSE, names_index |-> FALSE]

\* manager.rs build_postgres_connection_string
build_postgres_connection_string(config) ==
    LET host == unwrap_or(config.host, "localhost")
        port == unwrap_or(config.port, 5432)
        username == unwrap_or(config.username, "postgres")
        password == unwrap_or(config.password, "")
        url == "postgresql://" \o username \o ":" \o password \o "@" \o host
                   \o ":" \o ToString(port) \o "/" \o config.database
    IN  OkResult(IF config.ssl_mode # Absent
                 THEN url \o "?sslmode=" \o Unwrap(config.ssl_mode)
                 ELSE url)

\* manager.rs build_mysql_connection_string
build_mysql_connection_string(config) ==
    LET host == unwrap_or(config.host, "localhost")
        port == unwrap_or(config.port, 3306)
        username == unwrap_or(config.username, "root")
        password == unwrap_or(config.password, "")
    IN  OkResult("mysql://" \o username \o ":" \o password \o "@" \o host
                     \o ":" \o ToString(port) \o "/" \o config.database)

\* manager.rs build_sqlite_connection_string: the file path, or else the last
\* part of the database name, or else the ConfigError
build_sqlite_connection_string(config) ==
    LET path == or_else(config.file_path, split_last(config.database))
    IN  IF path = Absent
        THEN ErrResult(FilePathRequired)
        ELSE OkResult(IF \/ starts_with(Unwrap(path), "sqlite://")
                         \/ starts_with(Unwrap(path), "sqlite:")
                      THEN Unwrap(path)
                      ELSE "sqlite:" \o Unwrap(path))

\* the match on config.database_type of ConnectionManager::connect, up to
\* the connection string of each arm
ManagerConnectionString(config) ==
    CASE config.database_type = "PostgreSQL" -> build_postgres_connection_string(config)
      [] config.database_type = "MySQL"      -> build_mysql_connection_string(config)
      [] config.database_type = "SQLite"     -> build_sqlite_connection_string(config)
      [] config.database_type = "MSSQL"      -> ErrResult(NotImplemented)

\* the two callers that build a connection string from a configuration
ConnCommands == {"test_connection", "connect"}

\* a command on entry with its configuration: no string built, no pool
StartConn(cmd, config) ==
    [cmd |-> cmd, config |-> config, pc |-> "start", connection_string |-> "",
     pool |-> "none", result |-> NoResult]

(***************************************************************************)
(* Classification of a statement text as row-returning: the loop over      *)
(* leading comments and the keyword test of execute_single_query and of    *)
(* execute_query in the three drivers. A text is a sequence of characters  *)
(* in which a keyword stands as one element.                               *)
(***************************************************************************)
\* the characters and words the classification distinguishes
ClassifyAlphabet == {"-", "/", "*", NL, " ", "select", "SHOW", "PRAGMA", "INSERT"}

\* Longer texts:  -- note\n/* note */ WITH ..,  /* unterminated SELECT,
\* /*/ note */ SELECT,  -- SELECT (no newline),  DESCRIBE t
SeedTexts ==
    { <<"-", "-", "INSERT", NL, "/", "*", "INSERT", "*", "/", " ", "WITH">>,
      <<"/", "*", " ", "SELECT">>,
      <<"/", "*", "/", " ", "INSERT", "*", "/", " ", "SELECT">>,
      <<"/", "*", "/", "*", "/", "SELECT">>,
      <<"-", "-", " ", "SELECT">>,
      <<" ", NL, "DESCRIBE", " ", "INSERT">>,
      <<"/", "*", "*", "/", "-", "-", NL, "PRAGMA">> }

Texts == UNION { [1..n -> ClassifyAlphabet] : n \in 0..MaxLen } \cup SeedTexts

\* sql.starts_with("--"), sql.starts_with("/*")
StartsWithPair(t, a, b) == Len(t) >= 2 /\ t[1] = a /\ t[2] = b

\* the positions where str::find can report the pattern: '\n', or "*/"
NewlinePositions(t) == {k \in 1..Len(t) : t[k] = NL}
ClosePositions(t) == {k \in 1..Len(t) - 1 : t[k] = "*" /\ t[k + 1] = "/"}

\* str::find: the first position
First(positions) == CHOOSE k \in positions : \A j \in positions : k <= j

RECURSIVE StripLeadingComments(_)
\* while clean_sql.starts_with("--") || clean_sql.starts_with("/*") { .. }:
\* a line comment is cut at the first newline found (all is cut when there is
\* none), a block comment behind the first "*/" found in the text (nothing
\* is cut when there is none)
StripLeadingComments(t) ==
    IF StartsWithPair(t, "-", "-")
    THEN IF NewlinePositions(t) # {}
         THEN StripLeadingComments(Trim(SubSeq(t, First(NewlinePositions(t)), Len(t))))
         ELSE <<>>
    ELSE IF StartsWithPair(t, "/", "*")
    THEN IF ClosePositions(t) # {}
         THEN StripLeadingComments(Trim(SubSeq(t, First(ClosePositions(t)) + 2, Len(t))))
         ELSE t
    ELSE t

\* str::to_uppercase on a word
to_uppercase(w) == IF w = "select" THEN "SELECT" ELSE w

\* the keywords of `let is_select = sql_upper.starts_with(..) || ..`
RowKeywords(driver) ==
    CASE driver = "Postgres" -> {"SELECT", "WITH"}
      [] driver = "MySql"    -> {"SELECT", "WITH", "SHOW", "DESCRIBE"}
      [] driver = "Sqlite"   -> {"SELECT", "WITH", "PRAGMA"}

\* let mut clean_sql = sql.trim(); the loop; sql_upper; is_select
is_select(driver, sql) ==
    LET clean_sql == StripLeadingComments(Trim(sql))
    IN  clean_sql # <<>> /\ to_uppercase(clean_sql[1]) \in RowKeywords(driver)

\* one classification on entry: the driver and the text of the statement
StartClassify(driver, sql) ==
    [driver |-> driver, sql |-> sql, pc |-> "start", is_select |-> FALSE,
     call |-> None, affected_rows |-> NoCount, result |-> NoResult]

(***************************************************************************)
(* Initial states.                                                         *)
(***************************************************************************)
\* the values of the parts a specification leaves alone
IdleScan == ScanEnd(StartScan(<<>>))
IdleExec == [StartExec("Postgres", <<>>) EXCEPT !.pc = "idle"]
IdleCall == [StartCall("Postgres", "execute_query", "Postgres") EXCEPT !.pc = "idle"]
IdleRel == [StartRel("Postgres", {}, "orders") EXCEPT !.pc = "idle"]
IdleValue == [StartValue(CHOOSE c \in Cells : TRUE) EXCEPT !.pc = "idle"]
IdleTest == [StartTest(CHOOSE c \in TestConfigs : TRUE) EXCEPT !.pc = "idle"]
IdleClassify == [StartClassify("Postgres", <<>>) EXCEPT !.pc = "idle"]
IdleConn ==
    [StartConn("connect", CHOOSE c \in ConnectionConfigs : TRUE) EXCEPT !.pc = "idle"]

\* ConnectionManager::new(), no saved connection, no task running
InitRegistry ==
    /\ storage = [i \in Ids |-> Absent]
    /\ connections = [i \in Ids |-> Absent]
    /\ connection_strings = [i \in Ids |-> None]
    /\ pools = [p \in PoolIds |-> Absent]
    /\ writer = None
    /\ readers = {}
    /\ task = [t \in Tasks |-> IdleTask]

\* the computations on values, which no command state touches
calcVars == <<cv, rel, cn, cl>>

registryVars == <<storage, connections, connection_strings, pools, writer, readers, task>>

InitSplit ==
    /\ sp \in {StartScan(s) : s \in Inputs}
    /\ xq = IdleExec /\ dc = IdleCall /\ tc = IdleTest /\ cv = IdleValue /\ rel = IdleRel /\ cn = IdleConn /\ cl = IdleClassify /\ InitRegistry

InitExec ==
    /\ xq \in {StartExec(d, stmts) : d \in Drivers, stmts \in Scripts}
    /\ sp = IdleScan /\ dc = IdleCall /\ tc = IdleTest /\ cv = IdleValue /\ rel = IdleRel /\ cn = IdleConn /\ cl = IdleClassify /\ InitRegistry

InitDriver ==
    /\ dc \in {StartCall(d, op, tag) : d \in Drivers, op \in DriverOps, tag \in PoolTags}
    /\ sp = IdleScan /\ xq = IdleExec /\ tc = IdleTest /\ cv = IdleValue /\ rel = IdleRel /\ cn = IdleConn /\ cl = IdleClassify /\ InitRegistry

InitTest ==
    /\ tc \in {StartTest(c) : c \in TestConfigs}
    /\ sp = IdleScan /\ xq = IdleExec /\ dc = IdleCall /\ cv = IdleValue /\ rel = IdleRel /\ cn = IdleConn /\ cl = IdleClassify /\ InitRegistry

Init ==
    /\ InitRegistry
    /\ sp = IdleScan /\ xq = IdleExec /\ dc = IdleCall /\ tc = IdleTest /\ cv = IdleValue /\ rel = IdleRel /\ cn = IdleConn /\ cl = IdleClassify

(***************************************************************************)
(* The scan of split_sql_statements, one character (or pair) per step.     *)
(***************************************************************************)
SplitScan ==
    /\ ~sp.done /\ sp.pos <= Len(sp.input)
    /\ sp' = ScanChar(sp)
    /\ UNCHANGED <<xq, dc, tc, calcVars, registryVars>>

SplitFinish ==
    /\ ~sp.done /\ sp.pos > Len(sp.input)
    /\ sp' = ScanEnd(sp)
    /\ UNCHANGED <<xq, dc, tc, calcVars, registryVars>>

NextSplit == SplitScan \/ SplitFinish

SpecSplit == InitSplit /\ [][NextSplit]_vars

(***************************************************************************)
(* One execute_query call. The steps are the awaits of the source: begin,  *)
(* each statement, commit, rollback.                                       *)
(***************************************************************************)
\* let statements = split_sql_statements(sql); the branch on statements.len()
\* (Postgres), or the whole text handed to the pool (MySQL, SQLite).
ExecStart ==
    /\ xq.pc = "start"
    /\ xq' = [xq EXCEPT !.pc = IF UsesTransaction(xq.driver, Len(xq.stmts))
                               THEN "begin" ELSE "text"]
    /\ UNCHANGED <<sp, dc, tc, calcVars, registryVars>>

\* pool.begin().await
ExecBegin ==
    /\ xq.pc = "begin"
    /\ \/ xq' = [xq EXCEPT !.tx = "open",
                           !.pc = IF Len(xq.stmts) = 0 THEN "commit" ELSE "loop"]
       \/ xq' = [xq EXCEPT !.result = ErrResult(BeginError), !.pc = "done"]
    /\ UNCHANGED <<sp, dc, tc, calcVars, registryVars>>

\* one iteration of `for (i, stmt) in statements.iter().enumerate()` on the
\* transaction; a failing statement leaves the block through `?`
ExecLoop ==
    /\ xq.pc = "loop"
    /\ LET i == xq.i
           stmt == xq.stmts[i]
           len == Len(xq.stmts)
       IN  xq' = IF ~stmt.ok
                 THEN [xq EXCEPT !.executed = @ \cup {i},
                                 !.first_error = StmtError(i),
                                 !.pc = "rollback"]
                 ELSE [xq EXCEPT !.executed = @ \cup {i},
                                 !.pending = @ \cup Effect(xq.stmts, i),
                                 !.final_result =
                                     Accumulate(@, StmtResult(stmt, i), i, len),
                                 !.i = i + 1,
                                 !.pc = IF i = len THEN "commit" ELSE "loop"]
    /\ UNCHANGED <<sp, dc, tc, calcVars, registryVars>>

\* tx.commit().await, and its map_err. commit and rollback take the
\* transaction by value: when they fail the handle is gone with them
\* ("dropped"), and nothing of the transaction is applied.
ExecCommit ==
    /\ xq.pc = "commit"
    /\ \/ xq' = [xq EXCEPT !.committed = @ \cup xq.pending, !.pending = {},
                           !.tx = "committed",
                           !.result = OkResult(xq.final_result), !.pc = "done"]
       \/ xq' = [xq EXCEPT !.pending = {}, !.tx = "dropped",
                           !.result = ErrResult(CommitError), !.pc = "done"]
    /\ UNCHANGED <<sp, dc, tc, calcVars, registryVars>>

\* a failure path that returns the statement's error and leaves the
\* transaction as it is
ExecRollback_Skipped ==
    /\ xq.pc = "rollback"
    /\ xq' = [xq EXCEPT !.result = ErrResult(xq.first_error), !.pc = "done"]
    /\ UNCHANGED <<sp, dc, tc, calcVars, registryVars>>

\* tx.rollback().await, and its map_err
ExecRollback ==
    /\ xq.pc = "rollback"
    /\ \/ xq' = [xq EXCEPT !.pending = {}, !.tx = "rolled_back",
                           !.result = ErrResult(xq.first_error), !.pc = "done"]
       \/ xq' = [xq EXCEPT !.pending = {}, !.tx = "dropped",
                           !.result = ErrResult(RollbackError(xq.first_error)),
                           !.pc = "done"]
    /\ UNCHANGED <<sp, dc, tc, calcVars, registryVars>>

\* What fetch_all or execute of the whole text reports once statement idx
\* has run: the text is classified by its leading keyword, so by its first
\* statement; fetch_all collects rows, execute sums rows_affected.
TextAccumulate(final, stmts, idx) ==
    LET r == StmtResult(stmts[idx], idx)
    IN  IF stmts[1].kind = "select"
        THEN IF Len(final.rows) > 0
             THEN [final EXCEPT !.rows = @ \o r.rows]
             ELSE [r EXCEPT !.affected_rows = NoCount]
        ELSE [final EXCEPT !.affected_rows =
                  Some((IF @ = NoCount THEN 0 ELSE Unwrap(@))
                       + (IF r.affected_rows = NoCount THEN 0
                          ELSE Unwrap(r.affected_rows)))]

\* MySQL prepares the text of sqlx::query as one statement, and the server
\* refuses to prepare a text of several statements.
TextRefused(driver, len) == driver = "MySql" /\ len > 1

\* sqlx::query(sql).fetch_all(pool) / .execute(pool) with no transaction:
\* execute_single_query of Postgres, and execute_query of MySQL and SQLite.
\* The pool runs the statements of the text in turn, each committed as it
\* completes; the first failing one ends the call.
ExecText ==
    /\ xq.pc = "text" /\ ~TextRefused(xq.driver, Len(xq.stmts))
    /\ LET i == xq.i
           len == Len(xq.stmts)
       IN  IF len = 0
           THEN \/ xq' = [xq EXCEPT !.result = OkResult([EmptyResult EXCEPT
                                                   !.affected_rows = Some(0)]),
                                    !.pc = "done"]
                \/ xq' = [xq EXCEPT !.result = ErrResult(StmtError(0)), !.pc = "done"]
           ELSE xq' = IF ~xq.stmts[i].ok
                      THEN [xq EXCEPT !.executed = @ \cup {i},
                                      !.result = ErrResult(StmtError(i)),
                                      !.pc = "done"]
                      ELSE LET acc == TextAccumulate(xq.final_result, xq.stmts, i)
                           IN [xq EXCEPT !.executed = @ \cup {i},
                                         !.committed = @ \cup Effect(xq.stmts, i),
                                         !.final_result = acc,
                                         !.i = i + 1,
                                         !.result = IF i = len THEN OkResult(acc) ELSE @,
                                         !.pc = IF i = len THEN "done" ELSE "text"]
    /\ UNCHANGED <<sp, dc, tc, calcVars, registryVars>>

\* the text is refused before any of its statements runs
ExecTextRefused ==
    /\ xq.pc = "text" /\ TextRefused(xq.driver, Len(xq.stmts))
    /\ xq' = [xq EXCEPT !.result = ErrResult(StmtError(0)), !.pc = "done"]
    /\ UNCHANGED <<sp, dc, tc, calcVars, registryVars>>

NextExec ==
    \/ ExecStart \/ ExecBegin \/ ExecLoop \/ ExecCommit \/ ExecRollback
    \/ ExecText \/ ExecTextRefused

SpecExec == InitExec /\ [][NextExec]_vars

(***************************************************************************)
(* One driver operation on a PoolRef.                                      *)
(***************************************************************************)
\* the opening match on the PoolRef
CallMatch ==
    /\ dc.pc = "match"
    /\ dc' = IF AcceptsPool(dc.driver, dc.op, dc.tag)
             THEN [dc EXCEPT !.pc = "run"]
             ELSE [dc EXCEPT !.result = ErrResult(InvalidPoolError), !.pc = "done"]
    /\ UNCHANGED <<sp, xq, tc, calcVars, registryVars>>

\* one statement sent to the pool; its failure ends the operation
CallStatement ==
    /\ dc.pc = "run"
    /\ \/ dc' = [dc EXCEPT !.issued = @ + 1,
                           !.result = ErrResult(NativeError(dc.op)), !.pc = "done"]
       \/ dc' = IF dc.issued + 1 = StatementsOf(dc.driver, dc.op)
                THEN [dc EXCEPT !.issued = @ + 1, !.result = OkResult(dc.op),
                                !.pc = "done"]
                ELSE [dc EXCEPT !.issued = @ + 1]
    /\ UNCHANGED <<sp, xq, tc, calcVars, registryVars>>

NextDriver == CallMatch \/ CallStatement

SpecDriver == InitDriver /\ [][NextDriver]_vars

(***************************************************************************)
(* One column value conversion.                                            *)
(***************************************************************************)
Convert ==
    /\ cv.pc = "start"
    /\ cv' = [cv EXCEPT !.json = value_to_json(cv.cell), !.pc = "done"]
    /\ UNCHANGED <<rel, cn, cl, sp, xq, dc, tc, registryVars>>

NextValue == Convert

InitValue ==
    /\ cv \in {StartValue(c) : c \in Cells}
    /\ rel = IdleRel /\ cn = IdleConn /\ cl = IdleClassify
    /\ sp = IdleScan /\ xq = IdleExec /\ dc = IdleCall /\ tc = IdleTest /\ InitRegistry

SpecValue == InitValue /\ [][NextValue]_vars

(***************************************************************************)
(* One get_table_relationships call.                                       *)
(***************************************************************************)
\* the outgoing query returns its rows, or fails
RelOutgoing ==
    /\ rel.pc = "outgoing"
    /\ \/ rel' = [rel EXCEPT !.outgoing_rows = SetToSeq(OutgoingRows(rel.edges, rel.table)),
                             !.pc = "incoming"]
       \/ rel' = [rel EXCEPT !.result = ErrResult(RelError("outgoing")), !.pc = "done"]
    /\ UNCHANGED <<cv, cn, cl, sp, xq, dc, tc, registryVars>>

\* the incoming query returns its rows, or fails; in the SQLite driver the
\* list of tables may fail, and a failing PRAGMA on another table counts as
\* no rows (unwrap_or_default)
RelIncoming ==
    /\ rel.pc = "incoming"
    /\ \/ rel' = [rel EXCEPT !.incoming_rows =
                                 SetToSeq(IncomingRows(rel.driver, rel.edges, rel.table)),
                             !.pc = "build"]
       \/ rel' = [rel EXCEPT !.result = ErrResult(RelError("incoming")), !.pc = "done"]
       \/ /\ rel.driver = "Sqlite"
          /\ rel' = [rel EXCEPT !.swallowed = TRUE, !.pc = "build"]
    /\ UNCHANGED <<cv, cn, cl, sp, xq, dc, tc, registryVars>>

\* for row in outgoing_rows.iter().chain(incoming_rows.iter()) { push }; Ok(relationships)
RelBuild ==
    /\ rel.pc = "build"
    /\ rel' = [rel EXCEPT !.result =
                   OkResult(PushAll(rel.driver, <<>>, rel.outgoing_rows \o rel.incoming_rows)),
                         !.pc = "done"]
    /\ UNCHANGED <<cv, cn, cl, sp, xq, dc, tc, registryVars>>

NextRel == RelOutgoing \/ RelIncoming \/ RelBuild

InitRel ==
    /\ rel \in {StartRel(d, E, t) : d \in Drivers, E \in SUBSET AllEdges, t \in TableNames}
    /\ cv = IdleValue /\ cn = IdleConn /\ cl = IdleClassify
    /\ sp = IdleScan /\ xq = IdleExec /\ dc = IdleCall /\ tc = IdleTest /\ InitRegistry

SpecRel == InitRel /\ [][NextRel]_vars

(***************************************************************************)
(* One connection set up from a full configuration: the first line of a    *)
(* driver's test_connection, and ConnectionManager::connect from its match *)
(* on the dialect to the pool.                                             *)
(***************************************************************************)
\* let connection_string = self.build_connection_string(config);
\* of the driver get_driver hands to commands::test_connection
ConnDriverString ==
    /\ cn.pc = "start" /\ cn.cmd = "test_connection"
    /\ cn' = [cn EXCEPT !.connection_string =
                            build_connection_string(get_driver(cn.config), cn.config),
                        !.pc = "done"]
    /\ UNCHANGED <<cv, rel, cl, sp, xq, dc, tc, registryVars>>

\* let connection_string = build_*_connection_string(config)?;
ConnManagerString ==
    /\ cn.pc = "start" /\ cn.cmd = "connect"
    /\ LET built == ManagerConnectionString(cn.config)
       IN  cn' = IF built.status = "ok"
                 THEN [cn EXCEPT !.connection_string = Unwrap(built.value),
                                 !.pc = "open"]
                 ELSE [cn EXCEPT !.result = built, !.pc = "done"]
    /\ UNCHANGED <<cv, rel, cl, sp, xq, dc, tc, registryVars>>

\* Pool::connect(&connection_string).await returns the pool, or the error
\* that map_err turns into a ConnectionError
ConnOpen ==
    /\ cn.pc = "open"
    /\ \/ cn' = [cn EXCEPT !.pool = "open", !.result = OkResult(TRUE), !.pc = "done"]
       \/ cn' = [cn EXCEPT !.result = ErrResult(ConnectFailed), !.pc = "done"]
    /\ UNCHANGED <<cv, rel, cl, sp, xq, dc, tc, registryVars>>

NextConn == ConnDriverString \/ ConnManagerString \/ ConnOpen

InitConn ==
    /\ cn \in {StartConn(cmd, c) : cmd \in ConnCommands, c \in ConnectionConfigs}
    /\ cv = IdleValue /\ rel = IdleRel /\ cl = IdleClassify
    /\ sp = IdleScan /\ xq = IdleExec /\ dc = IdleCall /\ tc = IdleTest /\ InitRegistry

SpecConn == InitConn /\ [][NextConn]_vars

(***************************************************************************)
(* One classification and the call it selects.                             *)
(***************************************************************************)
\* the statement text up to `if is_select {`
Classify ==
    /\ cl.pc = "start"
    /\ cl' = [cl EXCEPT !.is_select = is_select(cl.driver, cl.sql), !.pc = "run"]
    /\ UNCHANGED <<cv, rel, cn, sp, xq, dc, tc, registryVars>>

\* sqlx::query(sql).fetch_all(..) for a row-returning text, .execute(..)
\* otherwise: the QueryResult has affected_rows None or
\* Some(rows_affected()), or the call fails
ClassifyRun ==
    /\ cl.pc = "run"
    /\ LET call == IF cl.is_select THEN "fetch_all" ELSE "execute"
       IN  \/ \E n \in 0..MaxRows :
                cl' = [cl EXCEPT !.call = call,
                                 !.affected_rows = IF cl.is_select THEN NoCount ELSE Some(n),
                                 !.result = OkResult(TRUE), !.pc = "done"]
           \/ cl' = [cl EXCEPT !.call = call, !.result = ErrResult(StmtError(1)),
                               !.pc = "done"]
    /\ UNCHANGED <<cv, rel, cn, sp, xq, dc, tc, registryVars>>

NextClassify == Classify \/ ClassifyRun

InitClassify ==
    /\ cl \in {StartClassify(d, t) : d \in Drivers, t \in Texts}
    /\ cv = IdleValue /\ rel = IdleRel /\ cn = IdleConn
    /\ sp = IdleScan /\ xq = IdleExec /\ dc = IdleCall /\ tc = IdleTest /\ InitRegistry

SpecClassify == InitClassify /\ [][NextClassify]_vars

(***************************************************************************)
(* One test_connection command (commands/connections.rs and the drivers).  *)
(***************************************************************************)
\* commands::test_connection up to the driver's first await:
\*   let driver = get_driver(&config); driver.test_connection(&config).await
TestGetDriver ==
    /\ tc.pc = "start"
    /\ tc' = [tc EXCEPT !.driver = get_driver(tc.config), !.pc = "connect"]
    /\ UNCHANGED <<sp, xq, dc, calcVars, registryVars>>

\* Pool::connect(&connection_string).await returns: a transient pool of the
\* driver's dialect, or the error through `?`
TestConnected ==
    /\ tc.pc = "connect"
    /\ \/ tc' = [tc EXCEPT !.pool = "open", !.pc = "version"]
       \/ tc' = [tc EXCEPT !.result = ErrResult(ConnectFailed), !.pc = "done"]
    /\ UNCHANGED <<sp, xq, dc, calcVars, registryVars>>

\* the version query returns: pool.close() and the Ok result, or the error
\* through `?`, which drops the pool without closing it
TestVersion ==
    /\ tc.pc = "version"
    /\ \/ tc' = [tc EXCEPT !.pool = "closed", !.result = OkResult(TestSucceeded),
                           !.pc = "done"]
       \/ tc' = [tc EXCEPT !.pool = "dropped",
                           !.result = ErrResult(VersionFailed), !.pc = "done"]
    /\ UNCHANGED <<sp, xq, dc, calcVars, registryVars>>

NextTest == TestGetDriver \/ TestConnected \/ TestVersion

SpecTest == InitTest /\ [][NextTest]_vars

(***************************************************************************)
(* The commands (commands/connections.rs, queries.rs, tables.rs) run as    *)
(* tasks on the registry behind its RwLock. A step of a task runs from one *)
(* await of the source to the next.                                        *)
(***************************************************************************)
\* the commands of queries.rs and tables.rs that hand a PoolRef to a driver
QueryOps == {"execute_query"}

\* no result is waiting to be handed over
Quiet == \A t \in Tasks : task[t].pc # "done"

CanStart(t) == task[t].pc = "idle"

\* The record of a task whose command has returned: the command, its
\* identifier, the pool its call took out of the registry and its result;
\* the other locals are gone. The result is handed to
\* the caller (Deliver) before any other step is taken: the hand-over
\* touches nothing but the task, so taking it first loses no behaviour.
Returned(st, result) ==
    [IdleTask EXCEPT !.cmd = st.cmd, !.pc = "done", !.id = st.id, !.old = st.old,
                     !.result = result]

\* a disconnect that refuses an identifier it has no pool for
DisconnectResult_NotConnected(found) ==
    IF found THEN OkResult(TRUE) ELSE ErrResult(NotConnected)

\* what ConnectionManager::disconnect returns, whether or not it found a
\* pool under the identifier: Ok(())
DisconnectResult(found) == OkResult(TRUE)

\* a pool whose handle is dropped without close: it stays as it is
ClosePool_DropOnly(ps, p) == ps

\* p.close().await has returned: the pool is gone
ClosePool(ps, p) == [ps EXCEPT ![p] = Absent]

\* the handles no live pool has
FreePools(ps) == {p \in PoolIds : ps[p] = Absent}

\* the handle Pool::connect returns
FreshPool(ps) == CHOOSE p \in FreePools(ps) : \A q \in FreePools(ps) : p <= q

\* commands::save_connection -> storage::save_connection: the stored
\* configuration of the identifier is replaced (or added)
SaveConnection(id, config) ==
    /\ Quiet
    /\ storage' = [storage EXCEPT ![id] = Some(config)]
    /\ UNCHANGED <<calcVars, sp, xq, dc, tc, connections, connection_strings, pools, writer,
                   readers, task>>

\* commands::connect up to `get_connection_manager().write().await`
StartConnect(t, id) ==
    /\ Quiet
    /\ CanStart(t)
    /\ task' = [task EXCEPT ![t] =
                   LET st == [IdleTask EXCEPT !.cmd = "connect", !.pc = "c_lock",
                                              !.id = id, !.config = storage[id]]
                   IN  IF storage[id] = Absent
                       THEN Returned(st, ErrResult(ConnectionNotFound))
                       ELSE st]
    /\ UNCHANGED <<calcVars, sp, xq, dc, tc, storage, connections, connection_strings, pools,
                   writer, readers>>

\* ConnectionManager::connect from its `match config.database_type`: the
\* MSSQL arm returns at once, the others await Pool::connect. st is the task
\* record on arrival. The result is <<task record, writer>>.
ConnectDispatch(t, st) ==
    IF PoolTagFor(Unwrap(st.config)) = None
    THEN << Returned(st, ErrResult(NotImplemented)), None >>
    ELSE << [st EXCEPT !.pc = "c_open"], t >>

\* the write guard is granted; ConnectionManager::connect runs to its
\* first await: the close of the old pool, or Pool::connect
ConnectLock(t) ==
    /\ Quiet
    /\ task[t].pc = "c_lock"
    /\ writer = None /\ readers = {}
    /\ LET id == task[t].id
       IN  IF DisconnectsFirst(connections, id)
           THEN /\ connections' = [connections EXCEPT ![id] = Absent]
                /\ task' = [task EXCEPT ![t].old = connections[id], ![t].pc = "c_close"]
                /\ writer' = t
           ELSE /\ connections' = connections
                /\ task' = [task EXCEPT ![t] = ConnectDispatch(t, task[t])[1]]
                /\ writer' = ConnectDispatch(t, task[t])[2]
    /\ UNCHANGED <<calcVars, sp, xq, dc, tc, storage, connection_strings, pools, readers>>

\* disconnect inside connect: p.close().await returns, the connection
\* string is removed, and connect goes on to its match
ConnectClosed(t) ==
    /\ Quiet
    /\ task[t].pc = "c_close"
    /\ pools' = ClosePool(pools, Unwrap(task[t].old))
    /\ connection_strings' = [connection_strings EXCEPT ![task[t].id] = None]
    /\ task' = [task EXCEPT ![t] = ConnectDispatch(t, task[t])[1]]
    /\ writer' = ConnectDispatch(t, task[t])[2]
    /\ UNCHANGED <<calcVars, sp, xq, dc, tc, storage, connections, readers>>

\* Pool::connect(&connection_string).await returns: the pool is inserted,
\* or the error is returned; the write guard is dropped with the command
ConnectOpened(t) ==
    /\ Quiet
    /\ task[t].pc = "c_open"
    /\ LET id == task[t].id
           cfg == Unwrap(task[t].config)
       IN  \/ /\ FreePools(pools) # {}
              /\ pools' = [pools EXCEPT ![FreshPool(pools)] =
                                       Some(NewPool(PoolTagFor(cfg), id))]
              /\ connection_strings' =
                     [connection_strings EXCEPT ![id] = ConnectionStringFor(cfg)]
              /\ connections' = [connections EXCEPT ![id] = Some(FreshPool(pools))]
              /\ task' = [task EXCEPT ![t] = Returned(task[t], OkResult(TRUE))]
           \/ /\ task' = [task EXCEPT ![t] = Returned(task[t], ErrResult(ConnectFailed))]
              /\ UNCHANGED <<pools, connection_strings, connections>>
    /\ writer' = None
    /\ UNCHANGED <<calcVars, sp, xq, dc, tc, storage, readers>>

\* commands::disconnect and commands::delete_connection up to `.write().await`
StartDisconnect(t, id, cmd) ==
    /\ Quiet
    /\ CanStart(t)
    /\ cmd \in {"disconnect", "delete_connection"}
    /\ task' = [task EXCEPT ![t] = [IdleTask EXCEPT !.cmd = cmd, !.pc = "d_lock",
                                                     !.id = id]]
    /\ UNCHANGED <<calcVars, sp, xq, dc, tc, storage, connections, connection_strings, pools,
                   writer, readers>>

\* the write guard is granted; ConnectionManager::disconnect removes the
\* entry and awaits its close. With no entry disconnect only forgets the
\* connection string (delete_connection does not call it then).
DisconnectLock(t) ==
    /\ Quiet
    /\ task[t].pc = "d_lock"
    /\ writer = None /\ readers = {}
    /\ LET id == task[t].id
           cmd == task[t].cmd
       IN  IF connections[id] # Absent
           THEN /\ connections' = [connections EXCEPT ![id] = Absent]
                /\ task' = [task EXCEPT ![t].old = connections[id], ![t].pc = "d_close"]
                /\ writer' = t
                /\ UNCHANGED <<connection_strings, storage>>
           ELSE /\ connection_strings' =
                       IF cmd = "disconnect"
                       THEN [connection_strings EXCEPT ![id] = None]
                       ELSE connection_strings
                /\ storage' = IF cmd = "delete_connection"
                              THEN [storage EXCEPT ![id] = Absent] ELSE storage
                /\ task' = [task EXCEPT ![t] = Returned(task[t], DisconnectResult(FALSE))]
                /\ UNCHANGED <<connections, writer>>
    /\ UNCHANGED <<calcVars, sp, xq, dc, tc, pools, readers>>

\* p.close().await returns; the command ends and drops the write guard
DisconnectClosed(t) ==
    /\ Quiet
    /\ task[t].pc = "d_close"
    /\ pools' = ClosePool(pools, Unwrap(task[t].old))
    /\ connection_strings' = [connection_strings EXCEPT ![task[t].id] = None]
    /\ storage' = IF task[t].cmd = "delete_connection"
                  THEN [storage EXCEPT ![task[t].id] = Absent] ELSE storage
    /\ task' = [task EXCEPT ![t] = Returned(task[t], DisconnectResult(TRUE))]
    /\ writer' = None
    /\ UNCHANGED <<calcVars, sp, xq, dc, tc, connections, readers>>

\* a command of queries.rs or tables.rs up to `.read().await`
StartQuery(t, id, op) ==
    /\ Quiet
    /\ CanStart(t)
    /\ task' = [task EXCEPT ![t] = [IdleTask EXCEPT !.cmd = "query", !.pc = "q_lock",
                                                     !.id = id, !.op = op]]
    /\ UNCHANGED <<calcVars, sp, xq, dc, tc, storage, connections, connection_strings, pools,
                   writer, readers>>

ConfigNotFound ==
    [kind |-> "ConfigError", msg |-> "Connection config not found", original |-> 0,
     rollback |-> FALSE, names_index |-> FALSE]

\* a command that drops its read guard before the driver operation runs
HoldsGuardWhileRunning_No(t) == FALSE

\* Whether the read guard of a query command is still held while its
\* driver operation runs: the PoolRef borrows from the guard, which lives
\* to the end of the command.
HoldsGuardWhileRunning(t) == TRUE

\* the read guard is granted; the command checks is_connected, reads the
\* stored configuration, picks the driver and the PoolRef, and awaits the
\* driver operation
QueryLock(t) ==
    /\ Quiet
    /\ task[t].pc = "q_lock"
    /\ writer = None
    /\ LET id == task[t].id
       IN  IF ~is_connected(connections, id)
           THEN /\ task' = [task EXCEPT ![t] = Returned(task[t], ErrResult(NotConnected))]
                /\ UNCHANGED readers
           ELSE IF storage[id] = Absent
           THEN /\ task' = [task EXCEPT ![t] = Returned(task[t], ErrResult(ConfigNotFound))]
                /\ UNCHANGED readers
           ELSE /\ task' = [task EXCEPT ![t].pc = "q_run",
                                        ![t].config = storage[id],
                                        ![t].driver = get_driver(Unwrap(storage[id])),
                                        ![t].pool = connections[id]]
                /\ readers' = IF HoldsGuardWhileRunning(t)
                              THEN readers \cup {t} ELSE readers
    /\ UNCHANGED <<calcVars, sp, xq, dc, tc, storage, connections, connection_strings, pools, writer>>

\* the driver operation returns: the invalid-pool error, or the outcome of
\* the statements it sent to the pool; the read guard is dropped
QueryRun(t) ==
    /\ Quiet
    /\ task[t].pc = "q_run"
    /\ LET p == Unwrap(task[t].pool)
           d == task[t].driver
       IN  IF ~AcceptsPool(d, task[t].op, Unwrap(pools[p]).tag)
           THEN /\ task' = [task EXCEPT ![t] =
                                  Returned(task[t], ErrResult(InvalidPoolError))]
           ELSE /\ \E r \in {OkResult(task[t].op), ErrResult(NativeError(task[t].op))} :
                       task' = [task EXCEPT ![t] = Returned(task[t], r)]
    /\ readers' = readers \ {t}
    /\ UNCHANGED <<calcVars, sp, xq, dc, tc, storage, connections, connection_strings, pools,
                   writer>>

\* the command of task t has returned: its result goes to the caller and
\* the task is free for the next command
Deliver(t) ==
    /\ task[t].pc = "done"
    /\ task' = [task EXCEPT ![t] = IdleTask]
    /\ UNCHANGED <<calcVars, sp, xq, dc, tc, storage, connections, connection_strings, pools,
                   writer, readers>>

Next ==
    \/ \E t \in Tasks : Deliver(t)
    \/ \E id \in Ids, config \in Configs : SaveConnection(id, config)
    \/ \E t \in Tasks, id \in Ids : StartConnect(t, id)
    \/ \E t \in Tasks : ConnectLock(t)
    \/ \E t \in Tasks : ConnectClosed(t)
    \/ \E t \in Tasks : ConnectOpened(t)
    \/ \E t \in Tasks, id \in Ids, cmd \in {"disconnect", "delete_connection"} :
           StartDisconnect(t, id, cmd)
    \/ \E t \in Tasks : DisconnectLock(t)
    \/ \E t \in Tasks : DisconnectClosed(t)
    \/ \E t \in Tasks, id \in Ids, op \in QueryOps : StartQuery(t, id, op)
    \/ \E t \in Tasks : QueryLock(t)
    \/ \E t \in Tasks : QueryRun(t)

Spec == Init /\ [][Next]_vars

(***************************************************************************)
(* Properties of multi-statement execution (SpecExec).                     *)
(***************************************************************************)
ExecDone == xq.pc = "done"
IsScript == Len(xq.stmts) >= 2

\* the statements of the script that failed when they were run
FailedStmts == {i \in xq.executed : ~xq.stmts[i].ok}

\* C3: for every dialect, a script of two or more statements runs inside one
\* transaction: once a statement has failed no later statement is run, and a
\* call that returns an error has committed none of the script's effects.
C3_ScriptIsAllOrNothing ==
    IsScript =>
        /\ \A i \in FailedStmts : \A j \in xq.executed : j <= i
        /\ (ExecDone /\ xq.result.status = "err" => xq.committed = {})

RECURSIVE SumAffected(_)
\* the sum of the affected-row counts of the side-effect statements
SumAffected(stmts) ==
    IF stmts = <<>> THEN 0
    ELSE (IF Head(stmts).kind = "exec" THEN Head(stmts).n ELSE 0)
         + SumAffected(Tail(stmts))

HasExec(stmts) == \E i \in 1..Len(stmts) : stmts[i].kind = "exec"

SelectIndexes(stmts) == {i \in 1..Len(stmts) : stmts[i].kind = "select"}

LastSelect(stmts) ==
    CHOOSE i \in SelectIndexes(stmts) : \A j \in SelectIndexes(stmts) : j <= i

\* a successful multi-statement execute_query of the splitting driver
ScriptSucceeded ==
    /\ xq.driver = "Postgres" /\ IsScript
    /\ ExecDone /\ xq.result.status = "ok"

\* C4: the result of a successful script carries the sum of the affected
\* rows of all its side-effect statements, whatever statement comes last.
C4_AffectedRowsAreSummed ==
    ScriptSucceeded /\ HasExec(xq.stmts) =>
        Unwrap(xq.result.value).affected_rows = Some(SumAffected(xq.stmts))

\* C5: the columns and rows of the result of a successful script are those
\* of its last row-returning statement, however many rows it returned.
C5_LastSelectWins ==
    ScriptSucceeded /\ SelectIndexes(xq.stmts) # {} =>
        LET k == LastSelect(xq.stmts)
            r == StmtResult(xq.stmts[k], k)
        IN  /\ Unwrap(xq.result.value).columns = r.columns
            /\ Unwrap(xq.result.value).rows = r.rows

(***************************************************************************)
(* Properties of the driver operations (SpecDriver).                       *)
(***************************************************************************)
\* C6: an operation given a PoolRef of another dialect than its driver's
\* returns the invalid-pool error and sends no statement to the pool.
C6_WrongPoolRejected ==
    dc.pc # "idle" /\ dc.tag # dc.driver =>
        /\ dc.issued = 0
        /\ dc.pc # "run"
        /\ (dc.pc = "done" => dc.result = ErrResult(InvalidPoolError))

C6_Witness ==
    /\ dc.pc = "done" /\ dc.driver = "Sqlite" /\ dc.tag = "MySql"
    /\ dc.op = "get_table_relationships"
    /\ dc.result.status = "err" /\ dc.issued = 0

(***************************************************************************)
(* Properties of the statement splitter (SpecSplit).                       *)
(***************************************************************************)
RECURSIVE NextOf(_, _, _)
\* the first position from i on that holds c, or one past the end
NextOf(s, c, i) ==
    IF i > Len(s) \/ s[i] = c THEN i ELSE NextOf(s, c, i + 1)

RECURSIVE EndOfLiteral(_, _)
\* the position of the quote that ends the single-quoted literal whose text
\* starts at i, a doubled quote being part of the text; one past the end of
\* s when the literal is not ended
EndOfLiteral(s, i) ==
    IF i > Len(s) THEN i
    ELSE IF s[i] # SQ THEN EndOfLiteral(s, i + 1)
    ELSE IF i + 1 <= Len(s) /\ s[i + 1] = SQ THEN EndOfLiteral(s, i + 2)
    ELSE i

RECURSIVE EndOfBlock(_, _)
\* the position of the * of the first */ from i on, or one past the end
EndOfBlock(s, i) ==
    IF i > Len(s) THEN i
    ELSE IF s[i] = "*" /\ i + 1 <= Len(s) /\ s[i + 1] = "/" THEN i
    ELSE EndOfBlock(s, i + 1)

RECURSIVE OutsidePositions(_, _)
\* The positions from i on that lie outside quoted text and comments, read
\* off the text token by token: a literal, a quoted identifier or a comment
\* is skipped from its opening to its end.
OutsidePositions(s, i) ==
    IF i > Len(s) THEN {}
    ELSE IF s[i] = SQ THEN OutsidePositions(s, EndOfLiteral(s, i + 1) + 1)
    ELSE IF s[i] = DQ THEN OutsidePositions(s, NextOf(s, DQ, i + 1) + 1)
    ELSE IF s[i] = BT THEN OutsidePositions(s, NextOf(s, BT, i + 1) + 1)
    ELSE IF s[i] = "-" /\ i + 1 <= Len(s) /\ s[i + 1] = "-"
         THEN OutsidePositions(s, NextOf(s, NL, i + 2) + 1)
    ELSE IF s[i] = "/" /\ i + 1 <= Len(s) /\ s[i + 1] = "*"
         THEN OutsidePositions(s, EndOfBlock(s, i + 2) + 2)
    ELSE {i} \cup OutsidePositions(s, i + 1)

\* C10: the scan ends a statement only at a semicolon outside single-quoted,
\* double-quoted and backtick-quoted text and outside line and block
\* comments (a doubled quote does not end a literal); every statement it
\* emits is trimmed and not empty, and each but the last ends at a boundary.
C10_SplitsOnlyOutsideQuotesAndComments ==
    /\ \A k \in sp.boundaries :
           sp.input[k] = ";" /\ k \in OutsidePositions(sp.input, 1)
    /\ \A k \in 1..Len(sp.statements) :
           LET st == sp.statements[k]
           IN  st # <<>> /\ ~IsWhitespace(st[1]) /\ ~IsWhitespace(st[Len(st)])
    /\ Len(sp.statements) <= Cardinality(sp.boundaries) + 1

\* SELECT ';' AS x; SELECT 2;  yields two statements, split at the two
\* semicolons outside the literal
C10_Witness ==
    /\ sp.done
    /\ sp.input = <<"a", SQ, ";", SQ, "a", ";", "a", ";">>
    /\ sp.statements = << <<"a", SQ, ";", SQ, "a">>, <<"a">> >>
    /\ sp.boundaries = {6, 8}

(***************************************************************************)
(* Claims about the registry and the commands.                             *)
(***************************************************************************)
\* a connect command whose ConnectionManager::connect has returned
ConnectReturned(t) ==
    /\ task[t].pc = "done" /\ task[t].cmd = "connect"
    /\ task[t].result # ErrResult(ConnectionNotFound)

\* the live pools that were opened for the identifier
PoolsFor(id) == {p \in PoolIds : pools[p] # Absent /\ Unwrap(pools[p]).for = id}

\* C1: when ConnectionManager::connect fails, the pool that was registered
\* under the identifier before the call is still registered and open.
C1_FailedConnectLeavesRegistry ==
    \A t \in Tasks :
        ConnectReturned(t) /\ task[t].result.status = "err" /\ task[t].old # Absent =>
            /\ connections[task[t].id] = task[t].old
            /\ pools[Unwrap(task[t].old)] # Absent

\* C2: a connect on a registered identifier removes and closes the old pool
\* before it opens the new one, and at any time at most one pool is alive
\* for an identifier: the registered one, or the one a call is closing.
C2_OldPoolClosedBeforeNewOpened ==
    /\ \A t \in Tasks :
           task[t].pc = "c_open" =>
               /\ connections[task[t].id] = Absent
               /\ PoolsFor(task[t].id) = {}
    /\ \A id \in Ids :
           /\ Cardinality(PoolsFor(id)) <= 1
           /\ \A p \in PoolsFor(id) :
                  \/ connections[id] = Some(p)
                  \/ \E t \in Tasks : /\ task[t].pc \in {"c_close", "d_close"}
                                      /\ task[t].id = id /\ task[t].old = Some(p)
    /\ \A t \in Tasks :
           ConnectReturned(t) /\ task[t].result.status = "ok" =>
               /\ connections[task[t].id] # Absent
               /\ PoolsFor(task[t].id) = connections[task[t].id]

C2_Witness ==
    \E t \in Tasks :
        /\ ConnectReturned(t) /\ task[t].result.status = "ok"
        /\ task[t].old # Absent
        /\ PoolsFor(task[t].id) = connections[task[t].id]
        /\ Cardinality(PoolsFor(task[t].id)) = 1

\* C7: a command on an MSSQL configuration is never given the driver of
\* another dialect by get_driver.
C7_NoDriverForMssql ==
    tc.pc \notin {"idle", "start"} /\ tc.config.database_type = "MSSQL" =>
        tc.driver \notin Drivers

\* C8: a query command no longer holds the registry's read guard while its
\* driver operation runs.
C8_GuardReleasedBeforeDriverRuns ==
    \A t \in Tasks : task[t].pc = "q_run" => t \notin readers

\* C9: the registry's write guard is not held while a connect or disconnect
\* waits for a pool to open or to close.
C9_WriteGuardNotHeldAcrossWait ==
    \A t \in Tasks : task[t].pc \in {"c_close", "c_open", "d_close"} => writer # t

(***************************************************************************)
(* Claims about the splitter, second part.                                 *)
(***************************************************************************)
\* C11: splitting is idempotent: splitting an emitted statement again gives
\* that one statement, unchanged.
C11_SplitIsIdempotent ==
    sp.done =>
        \A k \in 1..Len(sp.statements) :
            split_sql_statements(sp.statements[k]) = << sp.statements[k] >>

(***************************************************************************)
(* Claims about the column value conversion.                               *)
(***************************************************************************)
\* C12: a SQL NULL becomes the JSON null in every dialect.
C12_NullBecomesNull ==
    cv.pc = "done" /\ cv.cell.null => cv.json.kind = "null"

\* C13: a value that is not NULL and that no typed attempt accepts is made
\* from its raw bytes, as a plain string or as tagged base64, in every dialect.
C13_FallbackUsesRawBytes ==
    cv.pc = "done" /\ ~cv.cell.null /\ cv.cell.accepted = 0 =>
        cv.json = IF cv.cell.bytes = "text"
                  THEN Json("string", "raw bytes")
                  ELSE Json("string", "[base64: ...]")

(***************************************************************************)
(* Claims about test_connection.                                           *)
(***************************************************************************)
\* the test failed: its pool could not be opened, or its version query failed
TestFailed == tc.pc = "done" /\ tc.pool \in {"none", "dropped"}

\* C14: a failed test_connection returns a normal result with success = false,
\* not an error.
C14_FailedTestIsNormalResult ==
    TestFailed =>
        /\ tc.result.status = "ok"
        /\ \A r \in tc.result.value : r.success = FALSE

(***************************************************************************)
(* Claims about get_table_relationships.                                   *)
(***************************************************************************)
\* the foreign keys in which the table is the source or the target
EdgesOf(edges, table) ==
    {e \in edges : e.source_table = table \/ e.target_table = table}

\* a relationship without its constraint name
Nameless(e) == [e EXCEPT !.constraint_name = Absent]

\* C15: get_table_relationships returns every foreign key in which the table
\* is source or target, each once, a self-referencing one included.
C15_RelationshipsAreUnionWithoutDuplicates ==
    rel.pc = "done" /\ rel.result.status = "ok" /\ ~rel.swallowed =>
        LET r == Unwrap(rel.result.value)
        IN  /\ {Nameless(r[k]) : k \in 1..Len(r)}
                   = {Nameless(e) : e \in EdgesOf(rel.edges, rel.table)}
            /\ Len(r) = Cardinality(EdgesOf(rel.edges, rel.table))

\* a single statement ran and execute_query returned its QueryResult
SingleReturned ==
    xq.pc = "done" /\ Len(xq.stmts) = 1 /\ xq.result.status = "ok"

\* C16: the QueryResult returned for a single statement has every row as
\* long as the column list; for a statement that returns no result set the
\* columns and rows are empty and affected_rows is present; for a
\* row-returning statement the columns and rows are those of its result set
\* and affected_rows is absent.
C16_SingleResultShape ==
    SingleReturned =>
        LET r == Unwrap(xq.result.value)
            stmt == xq.stmts[1]
        IN  /\ \A j \in 1..Len(r.rows) : Len(r.rows[j]) = Len(r.columns)
            /\ stmt.kind = "exec" =>
                   /\ r.columns = <<>> /\ r.rows = <<>>
                   /\ r.affected_rows # NoCount
            /\ stmt.kind = "select" =>
                   /\ Len(r.columns) = stmt.w /\ Len(r.rows) = stmt.n
                   /\ r.affected_rows = NoCount

\* disconnect(id) holds the write guard and finds no pool under id
DisconnectsUnregistered(t) ==
    /\ task[t].cmd = "disconnect" /\ task[t].pc = "d_lock"
    /\ connections[task[t].id] = Absent

\* C17: disconnect(id) for an identifier with no registered pool returns Ok
\* and leaves the registered identifiers and their pools as they were.
C17_DisconnectUnregisteredIsNoOp ==
    [][\A t \in Tasks :
          DisconnectsUnregistered(t) /\ task'[t] # task[t] =>
              /\ task'[t].pc = "done" /\ task'[t].result = OkResult(TRUE)
              /\ connections' = connections
              /\ pools' = pools]_vars

\* a disconnect of an unregistered identifier has returned
C17_Witness ==
    \E t \in Tasks :
        /\ task[t].pc = "done" /\ task[t].cmd = "disconnect"
        /\ task[t].old = Absent /\ task[t].result.status # "none"
        /\ connections[task[t].id] = Absent

\* the configuration with its absent host and port replaced by the dialect
\* defaults of the specification
WithDefaults(config, host, port) ==
    [config EXCEPT !.host = or_else(@, Some(host)), !.port = or_else(@, Some(port))]

DriverStringBuilt == cn.pc = "done" /\ cn.cmd = "test_connection"

\* C18: build_connection_string gives the same string for the same
\* configuration, and an absent host or port is filled with the dialect
\* default: localhost and 5432 for Postgres, localhost and 3306 for MySQL.
C18_ConnectionStringDefaults ==
    DriverStringBuilt =>
        LET driver == get_driver(cn.config)
        IN  /\ cn.connection_string = build_connection_string(driver, cn.config)
            /\ driver = "Postgres" =>
                   cn.connection_string = build_connection_string(
                       driver, WithDefaults(cn.config, "localhost", 5432))
            /\ driver = "MySql" =>
                   cn.connection_string = build_connection_string(
                       driver, WithDefaults(cn.config, "localhost", 3306))

\* a MySQL connection string was built from a configuration without host
\* and port
C18_Witness ==
    /\ DriverStringBuilt /\ cn.config.database_type = "MySQL"
    /\ cn.config.host = Absent /\ cn.config.port = Absent
    /\ cn.config.username = Absent /\ cn.config.password = Absent
    /\ cn.connection_string = "mysql://root:@localhost:3306/" \o cn.config.database

\* C19: connecting with a SQLite configuration that has no file path fails
\* with a ConfigError and opens no pool.
C19_SqliteWithoutPathIsConfigError ==
    /\ cn.cmd = "connect" /\ cn.pc \notin {"idle", "start"}
    /\ cn.config.database_type = "SQLite" /\ cn.config.file_path = Absent
    => /\ cn.pc = "done" /\ cn.result.status = "err"
       /\ cn.result.err.kind = "ConfigError"
       /\ cn.pool = "none"

\* a statement of a script failed and execute_query has returned
ScriptFailed == IsScript /\ ExecDone /\ FailedStmts # {}

\* C20: when a statement of a multi-statement script fails, execute_query
\* returns that statement's error; when the rollback fails too, the error
\* returned carries the statement's failure together with the rollback
\* failure, never the rollback failure alone.
C20_OriginalErrorSurvivesRollback ==
    ScriptFailed =>
        /\ xq.result.status = "err"
        /\ xq.result.err.original \in FailedStmts
        /\ xq.tx # "dropped" => xq.result.err = StmtError(xq.result.err.original)
        /\ xq.tx = "dropped" => xq.result.err.rollback

\* a statement of a script failed and so did the rollback
C20_Witness ==
    /\ ScriptFailed /\ xq.driver = "Postgres"
    /\ xq.tx = "dropped" /\ xq.first_error # NoError
    /\ xq.result.err.rollback

\* C21: the error returned for a failed multi-statement execution names the
\* statement of the script that failed (its index), so a failure of the
\* second of three statements is reported as a failure of statement two.
C21_ErrorNamesStatementIndex ==
    ScriptFailed => xq.result.status = "err" /\ xq.result.err.names_index

\* the pools the registry holds
Registered == {p \in PoolIds : \E id \in Ids : connections[id] = Some(p)}

\* the pools a disconnect (alone or inside connect) took out of the registry
\* and is closing: p.close() has been called and is awaited
BeingClosed ==
    {p \in PoolIds : \E t \in Tasks : /\ task[t].pc \in {"c_close", "d_close"}
                                      /\ task[t].old = Some(p)}

\* C22: a pool the registry opened and no longer holds has been closed: no
\* pool leaves the registry, by disconnect or by replacement in connect,
\* without close being called on it.
C22_RemovedPoolsAreClosed ==
    \A p \in PoolIds : pools[p] # Absent => p \in Registered \cup BeingClosed

\* a disconnect took a pool out of the registry and its close has returned
C22_Witness ==
    \E t \in Tasks :
        /\ task[t].pc = "done" /\ task[t].cmd \in {"disconnect", "delete_connection"}
        /\ task[t].old # Absent
        /\ pools[Unwrap(task[t].old)] = Absent

\* C23: no driver operation turns a native failure into a result that looks
\* successful: a catalog or PRAGMA lookup that fails while the relationships
\* of a table are collected makes get_table_relationships return an error.
C23_FailedLookupIsAnError ==
    rel.pc = "done" /\ rel.swallowed => rel.result.status = "err"

\* pool.begin() succeeded in this call
TransactionBegun == xq.tx # "none"

\* C24: an execute_query call that began a transaction has ended it when it
\* returns: commit or rollback was called on it on every path (all
\* statements succeed, a statement fails, commit fails, rollback fails, no
\* statement at all), a successful call has committed, and a call whose
\* rollback succeeded has rolled back; no transaction is left open.
C24_TransactionAlwaysEnded ==
    ExecDone /\ TransactionBegun =>
        /\ xq.tx \in {"committed", "rolled_back", "dropped"}
        /\ xq.result.status = "ok" <=> xq.tx = "committed"
        /\ xq.tx = "rolled_back" => FailedStmts # {}
        /\ xq.pending = {}

\* a statement of a script failed inside the transaction and the call
\* returned after rolling it back
C24_Witness ==
    /\ ExecDone /\ TransactionBegun /\ FailedStmts # {}
    /\ xq.tx = "rolled_back" /\ xq.result.status = "err"

\* the end of the block comment that opens the text: the first "*/" behind
\* the opening "/*"
CommentEnds(t) == {k \in ClosePositions(t) : k >= 3}

RECURSIVE WithoutLeadingComments(_)
\* the text behind its leading whitespace, line comments and block comments
WithoutLeadingComments(t) ==
    IF t # <<>> /\ IsWhitespace(t[1])
    THEN WithoutLeadingComments(Tail(t))
    ELSE IF StartsWithPair(t, "-", "-")
    THEN IF NewlinePositions(t) # {}
         THEN WithoutLeadingComments(SubSeq(t, First(NewlinePositions(t)) + 1, Len(t)))
         ELSE <<>>
    ELSE IF StartsWithPair(t, "/", "*") /\ CommentEnds(t) # {}
    THEN WithoutLeadingComments(SubSeq(t, First(CommentEnds(t)) + 2, Len(t)))
    ELSE t

\* the leading keywords of the row-returning statements of a dialect
RowReturningKeywords(driver) ==
    {"SELECT", "WITH"}
        \cup (IF driver = "MySql" THEN {"SHOW", "DESCRIBE"} ELSE {})
        \cup (IF driver = "Sqlite" THEN {"PRAGMA"} ELSE {})

RowReturning(driver, t) ==
    LET rest == WithoutLeadingComments(t)
    IN  rest # <<>> /\ \E w \in RowReturningKeywords(driver) :
                           rest[1] = w \/ (w = "SELECT" /\ rest[1] = "select")

\* C25: a statement is classified as row-returning exactly when, behind its
\* leading line comments, block comments and whitespace, its text starts
\* (in any case) with SELECT or WITH, or with SHOW or DESCRIBE for MySQL, or
\* with PRAGMA for SQLite; every other statement is executed for its side
\* effect and reports an affected-row count.
C25_RowReturningClassification ==
    cl.pc = "done" =>
        /\ cl.call = "fetch_all" <=> RowReturning(cl.driver, cl.sql)
        /\ ~RowReturning(cl.driver, cl.sql) /\ cl.result.status = "ok" =>
               cl.call = "execute" /\ cl.affected_rows # NoCount

\* C26: a test_connection call that opened its transient pool has closed it
\* when it returns, whether the version query succeeded or failed.
C26_TransientPoolAlwaysClosed ==
    tc.pc = "done" /\ tc.pool # "none" => tc.pool = "closed"

\* how many of the five quoting and comment states are active
ActiveStates(st) ==
    Cardinality({f \in {"in_single_quote", "in_double_quote", "in_backtick",
                        "in_line_comment", "in_block_comment"} : st[f]})

\* C27: at every step of the scan, for every input, at most one of
\* in_single_quote, in_double_quote, in_backtick, in_line_comment and
\* in_block_comment is active.
C27_ScanStatesExclusive == ActiveStates(sp) <= 1

\* the scan has passed a quote character inside a block comment
C27_Witness ==
    /\ sp.in_block_comment /\ sp.pos > 1 /\ sp.pos - 1 <= Len(sp.input)
    /\ sp.input[sp.pos - 1] \in {SQ, DQ, BT}

\* the driver operation of a query or table command is running on a pool
InFlight(t) == task[t].pc = "q_run"

\* C28: while a driver operation of a query or table command is in flight
\* on the pool of an identifier, that pool stays registered under the
\* identifier and open: a concurrent disconnect, delete_connection or
\* replacing connect has to wait for the operation to return.
C28_InFlightOperationProtectsPool ==
    \A t \in Tasks :
        InFlight(t) =>
            /\ connections[task[t].id] = task[t].pool
            /\ pools[Unwrap(task[t].pool)] # Absent
            /\ \A u \in Tasks : task[u].pc \notin {"c_close", "c_open", "d_close"}

\* an operation is in flight and a disconnect of the same identifier waits
\* for the write guard
C28_Witness ==
    \E t, u \in Tasks :
        /\ InFlight(t) /\ t \in readers
        /\ task[u].pc \in {"d_lock", "c_lock"} /\ task[u].id = task[t].id

\* the driver operation of task t returns in this step
OperationReturns(t) == task[t].pc = "q_run" /\ task'[t].pc = "done"

\* the dialect of the pool the operation of task t was handed
PoolDialect(t) == Unwrap(pools[Unwrap(task[t].pool)]).tag

\* C29: a command issues SQL against a registered pool only when the pool's
\* dialect is the dialect of the stored configuration the command read for
\* the identifier, also when save_connection changed the stored dialect
\* after connect; in every other case the command returns the invalid-pool
\* error without using the pool.
C29_PoolDialectMatchesStoredConfig ==
    [][\A t \in Tasks :
          OperationReturns(t) =>
              IF PoolTagFor(Unwrap(task[t].config)) = PoolDialect(t)
              THEN task'[t].result # ErrResult(InvalidPoolError)
              ELSE task'[t].result = ErrResult(InvalidPoolError)]_vars

\* ConnectionManager::connect has built the string it opens the pool with
ManagerStringBuilt ==
    cn.cmd = "connect" /\ cn.pc \notin {"idle", "start"} /\ cn.connection_string # ""

\* C30: for every configuration of a supported dialect, the connection
\* string the registry's connect opens the pool with is the string the
\* dialect driver's build_connection_string makes of the same
\* configuration, so that a tested configuration and a connected one
\* address the same database.
C30_RegistryStringIsDriverString ==
    cn.cmd = "connect" /\ cn.pc \notin {"idle", "start"}
        /\ cn.config.database_type # "MSSQL" =>
            /\ ManagerStringBuilt
            /\ cn.connection_string =
                   build_connection_string(get_driver(cn.config), cn.config)

====
